---- MODULE Spec2Model ----
(***************************************************************************)
(* State-machine model of the HTTP boundary of the AI study assistant      *)
(* (src/api/main.py).                                                      *)
(*                                                                         *)
(* The shared state is the three module globals vector_store, rag_system   *)
(* and quiz_generator, the upload directory data/uploads and the persisted *)
(* index data/vector_store/study_materials.                                *)
(*                                                                         *)
(* Scheduling.  upload_document is declared "async def" and its body has   *)
(* no await: the server runs it on the event loop, to completion, before   *)
(* the loop starts another coroutine.  Every other handler is a plain      *)
(* "def": the server runs it in a worker thread, whose statements          *)
(* interleave with the event loop's and with other workers'.  So a handler *)
(* is a sequence of steps (one per statement that reads or writes shared   *)
(* state), upload handlers exclude each other, and everything else         *)
(* interleaves freely.                                                     *)
(*                                                                         *)
(* The collaborators (DocumentIngestion, RAGSystem, QuizGenerator, the     *)
(* filesystem) are not part of the layer: each call either raises or       *)
(* returns, chosen nondeterministically, and a returned value is the       *)
(* uninterpreted application of the call to its arguments.                 *)
(***************************************************************************)
EXTENDS Integers, Sequences, FiniteSets, TLC

\* ------------------------------------------------------------------ bounds
\* Number of /upload and /reset requests the clients send in one behaviour
\* (the requests that write; the others are sent without limit).
MaxRequests == 2

\* ------------------------------------------------------------- value sets
\* Python's None and a reference to an object: an option is <<>> or <<x>>.
None == <<>>
Some(x) == <<x>>

\* Filenames a client can send: a stem and the suffix pathlib would report.
NoName == [stem |-> "-", suffix |-> "-"]
Filenames ==
  { [stem |-> "a", suffix |-> ".txt"],
    [stem |-> "b", suffix |-> ".PDF"],
    [stem |-> "c", suffix |-> ".exe"] }

\* The multipart uploads a client can send: a filename and a body.
UploadRequests ==
  { <<[stem |-> "a", suffix |-> ".txt"], "v1">>,
    <<[stem |-> "a", suffix |-> ".txt"], "v2">>,
    <<[stem |-> "b", suffix |-> ".PDF"], "v1">>,
    <<[stem |-> "c", suffix |-> ".exe"], "v1">> }

\* The (questions, user_answers) payloads a client can send to /quiz/grade.
GradeRequests == { <<"q1", "A">>, <<"q2", "B">> }

\* No such file in the upload directory.
Absent == "absent"

\* The persisted index directory does not exist.
NoIndex == <<>>

\* Request slots: the requests in flight at the same time.  A slot holds an
\* /upload (a coroutine on the event loop) or a request to a plain-def
\* endpoint (run in a worker thread).
Slots == {"s1", "s2"}

\* The order in which free slots are handed out.
Less(s, t) == s = "s1" \/ s = t

\* The plain-def endpoints, run in worker threads.
RagOps == {"ask", "summarize", "definitions"}
QuizOps == {"quiz_generate", "quiz_grade"}
QueryOps == RagOps \cup QuizOps
WorkerOps == QueryOps \cup {"root", "documents", "reset"}

VARIABLES
  vector_store,    \* global: None or Some(set of chunks held by the index)
  rag_system,      \* global: None or Some(the vector_store it was built from)
  quiz_generator,  \* global: None or Some(the vector_store it was built from)
  files,           \* data/uploads: filename -> content or Absent
  index,           \* data/vector_store/study_materials: NoIndex or Some(chunks)
  proc,            \* slot -> the request it serves and its handler's position
  out,             \* the request that has just finished, and its response
  hist,            \* history of the session since start / the last reset:
                   \*   uploadStarted: an /upload request has been sent
                   \*   uploadSinceReset: an upload has reached the index test
                   \*   installed: an upload has installed an index
                   \*   kept: chunks of the uploads that returned success
                   \*   afterReset: "no", or how the last successful reset
                   \*     went if no /upload has been sent since its return:
                   \*     "raced" (an upload ran during it or was in flight
                   \*     at its return) or "clean"
  nreq             \* number of /upload and /reset requests sent so far

vars == <<vector_store, rag_system, quiz_generator, files, index, proc, out,
          hist, nreq>>

globals == <<vector_store, rag_system, quiz_generator>>
disk == <<files, index>>

\* ---------------------------------------------------------- pure helpers
\* str.lower() on the suffixes that occur.
Lower(s) ==
  CASE s = ".PDF" -> ".pdf"
    [] s = ".TXT" -> ".txt"
    [] s = ".EXE" -> ".exe"
    [] OTHER -> s

\* Path(file.filename).suffix.lower()
file_extension(f) == Lower(f.suffix)

\* Mutant: executables are let through as well.
SupportedExtensions_WithExe == {".pdf", ".txt", ".exe"}

\* file_extension not in ['.pdf', '.txt'] is the rejection test.
SupportedExtensions == {".pdf", ".txt"}

\* [f for f in os.listdir(UPLOAD_DIR) if os.path.isfile(...)]
ListDocuments(dir) == {f \in Filenames : dir[f] # Absent}

\* An HTTPException(status_code, detail).
HTTPException(status, detail) ==
  [type |-> "HTTPException", status |-> status, detail |-> detail]

\* Any other exception a collaborator or the filesystem raises.
OtherException == [type |-> "Exception", status |-> 0, detail |-> ""]

\* HTTP status codes used by the handlers.
BadRequest == 400
ServerError == 500
Ok == 200

NoDocumentsDetail == "No documents uploaded yet. Please upload documents first."

\* The framework's translation of what leaves a handler: an HTTPException
\* becomes a JSON error with its status and detail, anything else is an
\* unhandled exception (a bare 500 with no detail, logged as a crash).
ErrorResponse(e) ==
  IF e.type = "HTTPException"
    THEN [status |-> e.status, detail |-> e.detail, unhandled |-> FALSE,
          body |-> <<>>]
    ELSE [status |-> ServerError, detail |-> "", unhandled |-> TRUE,
          body |-> <<>>]

\* A returned value becomes a 200 response carrying it.
OkResponse(body) ==
  [status |-> Ok, detail |-> "", unhandled |-> FALSE, body |-> body]

NoResponse == [status |-> 0, detail |-> "", unhandled |-> FALSE, body |-> <<>>]

\* A slot with no request.
IdleProc ==
  [pc |-> "idle", op |-> "-", name |-> NoName, content |-> "-",
   arg |-> "-", ans |-> "-",
   chunks |-> {},        \* upload: the chunks process_documents returned
   first |-> FALSE,      \* upload: first to reach the index since start/reset
   installed |-> FALSE,  \* upload: an index was installed when it tested
   built |-> "none",     \* upload: "create" or "extend", as the test chose
   calls |-> {},         \* collaborator calls made so far
   raised |-> FALSE,     \* a collaborator or filesystem call raised
   raced |-> {},         \* kinds of request that ran during this handler
   before |-> {},        \* upload, reset: the documents listed at its start
   seen |-> <<>>,        \* query: the engine its null check read;
                         \* upload: the three globals at its start
   result |-> <<>>]      \* query: what the collaborator's method returned

\* A handler is running in the slot (a queued upload is in flight but its
\* coroutine has not been started).
Mid(s) == proc[s].pc \notin {"idle", "queued"}

\* The kind of request an endpoint is, for the raced bookkeeping.
KindOf(op) ==
  IF op = "upload" THEN "upload"
  ELSE IF op = "reset" THEN "reset" ELSE "query"

\* Slot t after a request of kind k took a handler step: if t's handler is
\* running, it has now overlapped a request of that kind.  (The bookkeeping
\* is about the writers, /upload and /reset, other than the request itself.)
Touch(t, k) ==
  IF Mid(t) /\ k # "query" /\ k # KindOf(proc[t].op)
    THEN [proc[t] EXCEPT !.raced = @ \cup {k}]
    ELSE proc[t]

\* The slots holding an /upload, and those holding a worker's request.
Uploads == {s \in Slots : proc[s].op = "upload"}
Workers == {s \in Slots : proc[s].op \in WorkerOps}

\* The slot a new request is given: the first free one.
FirstIdle(pool) ==
  IF \E s \in pool : proc[s].pc = "idle"
    THEN {CHOOSE s \in pool :
            /\ proc[s].pc = "idle"
            /\ \A t \in pool : proc[t].pc = "idle" => Less(s, t)}
    ELSE {}

\* The shared state: the three globals, the upload directory, the index.
shared == <<vector_store, rag_system, quiz_generator, files, index>>

\* No request has just finished.
NoOut ==
  [p |-> IdleProc, resp |-> NoResponse,
   pre |-> <<None, None, None, [f \in Filenames |-> Absent], NoIndex>>]

\* Slot w takes a new /upload or /reset request.
Arrives(w) ==
  /\ out = NoOut
  /\ w \in FirstIdle(Slots)
  /\ nreq < MaxRequests
  /\ nreq' = nreq + 1

\* Slot w takes a new request to one of the other endpoints.
ArrivesToRead(w) ==
  /\ out = NoOut
  /\ w \in FirstIdle(Slots)
  /\ UNCHANGED nreq

\* The kinds of request whose handlers are running beside slot s.
Running(s) ==
  {KindOf(proc[t].op) : t \in {x \in Slots : x # s /\ Mid(x)}} \ {"query"}

\* The handler in slot s moves on, its slot becoming p.
Step(s, p) ==
  /\ out = NoOut
  /\ proc' = [t \in Slots |-> IF t = s THEN p ELSE Touch(t, KindOf(p.op))]
  /\ out' = NoOut

\* The handler in slot s, whose slot was p, ends with response r; pre is the
\* shared state its last step started from.  The requests in flight stay at
\* the front of the slots: when the one in "s1" ends, the other moves up.
Finish(s, p, r) ==
  /\ out = NoOut
  /\ proc' = IF s = "s1"
               THEN [t \in Slots |->
                       IF t = "s1" THEN Touch("s2", KindOf(p.op))
                                   ELSE IdleProc]
               ELSE [t \in Slots |->
                       IF t = s THEN IdleProc ELSE Touch(t, KindOf(p.op))]
  /\ out' = [p |-> p, resp |-> r, pre |-> shared]

\* The server sends the response of the request that has just finished,
\* before any handler takes its next step (sending touches no shared state).
Respond ==
  /\ out # NoOut
  /\ out' = NoOut
  /\ UNCHANGED <<globals, disk, proc, hist, nreq>>

\* p after the handler called collaborator fn with arguments a1, a2.
Call(p, fn, a1, a2) == [p EXCEPT !.calls = @ \cup {<<fn, a1, a2>>}]

\* p after a collaborator or filesystem call raised.
Raise(p) == [p EXCEPT !.raised = TRUE]

\* ------------------------------------------------------------------- Init
\* State after "import src.api.main": lines 29-38.
Init ==
  /\ vector_store = None
  /\ rag_system = None
  /\ quiz_generator = None
  /\ files = [f \in Filenames |-> Absent]
  /\ index = NoIndex
  /\ proc = [s \in Slots |-> IdleProc]
  /\ out = NoOut
  /\ hist = [uploadStarted |-> FALSE, uploadSinceReset |-> FALSE,
             installed |-> FALSE, kept |-> {}, afterReset |-> "no"]
  /\ nreq = 0

\* ----------------------------------------------------------------- upload
\* Mutant: the handler has no "except Exception" clause.
UploadExcept_Uncaught(e) == e

\* lines 163-167: "except HTTPException: raise" and
\* "except Exception as e: raise HTTPException(500, 'Upload failed: ...')".
UploadExcept(e) ==
  IF e.type = "HTTPException"
    THEN e
    ELSE HTTPException(ServerError, "Upload failed")

\* lines 141-146: the inner handler around the index build.
VectorStoreExcept(e) ==
  HTTPException(ServerError, "Failed to create/update vector store")

\* Mutant: every upload builds a new index.
BuildsNewIndex_Always(vs) == TRUE

\* line 134: the test that chooses between building and extending.
BuildsNewIndex(vs) == vs = None

\* Mutant: upload handlers run in threads and start at once.
EventLoopFree_Always(u) == TRUE

\* The event loop can start upload u's coroutine: no other upload coroutine
\* is part-way through (lines 86-87: async def, and no await in 98-167).
EventLoopFree(u) == \A v \in Uploads \ {u} : ~Mid(v)

\* Mutant: every upload is saved under one fixed name.
file_path_Fixed(f) == [stem |-> "a", suffix |-> ".txt"]

\* line 114: file_path = os.path.join(UPLOAD_DIR, file.filename), as the
\* entry of the upload directory it names.
file_path(f) == f

\* Mutant: an existing file is not overwritten.
SaveFile_KeepExisting(dir, path, c) ==
  IF dir[path] # Absent THEN dir ELSE [dir EXCEPT ![path] = c]

\* lines 117-118: open(file_path, "wb") and copyfileobj: the file at that
\* path is created or truncated and holds the request's body.
SaveFile(dir, path, c) == [dir EXCEPT ![path] = c]

\* The collaborators, as the layer uses them.  process_documents returns the
\* chunks of the file at the path: here one chunk, naming the file and the
\* content it was read with.
process_documents(dir, path) == {<<path, dir[path]>>}

\* create_vector_store builds an index of the chunks; the same index is
\* persisted under the store name and returned.
create_vector_store(chunks) == chunks

\* add_documents_to_existing_store adds the chunks to the persisted index.
add_documents_to_existing_store(idx, chunks) ==
  (IF idx = NoIndex THEN {} ELSE idx[1]) \cup chunks

\* load_vector_store returns the persisted index.
load_vector_store(idx) == idx[1]

\* An engine is an object holding the vector store it was given.
RAGSystem(vs) == Some(vs)
QuizGenerator(vs) == Some(vs)

\* A multipart upload as the server receives it.
NewUpload(f, c) ==
  [IdleProc EXCEPT !.pc = "queued", !.op = "upload",
                   !.name = f, !.content = c]

\* lines 98-120: the coroutine starts, validates the file type, and saves
\* the file with open(file_path, "wb") and copyfileobj; open can raise.
UploadBegin(u, p0) ==
  LET p == [p0 EXCEPT !.raced = Running(u),
                      !.before = ListDocuments(files),
                      !.seen = globals]
  IN
  /\ IF file_extension(p.name) \notin SupportedExtensions
       THEN /\ Finish(u, p, ErrorResponse(UploadExcept(
                        HTTPException(BadRequest, "Unsupported file type"))))
            /\ UNCHANGED files
       ELSE \/ /\ files' = SaveFile(files, file_path(p.name), p.content)
               /\ Step(u, [p EXCEPT !.pc = "process"])
            \/ /\ Finish(u, Raise(p),
                         ErrorResponse(UploadExcept(OtherException)))
               /\ UNCHANGED files
  /\ UNCHANGED <<globals, index>>

\* A client sends POST /upload while the event loop is running another
\* upload's coroutine: the request waits.
UploadArrive(u, f, c) ==
  /\ Arrives(u)
  /\ ~EventLoopFree(u)
  /\ out = NoOut
  /\ proc' = [proc EXCEPT ![u] = NewUpload(f, c)]
  /\ out' = NoOut
  /\ hist' = [hist EXCEPT !.uploadStarted = TRUE, !.afterReset = "no"]
  /\ UNCHANGED <<globals, disk>>

\* A client sends POST /upload and the event loop starts its coroutine.
UploadStart(u, f, c) ==
  /\ Arrives(u)
  /\ EventLoopFree(u)
  /\ hist' = [hist EXCEPT !.uploadStarted = TRUE, !.afterReset = "no"]
  /\ UploadBegin(u, NewUpload(f, c))

\* The event loop starts the coroutine of an upload that waited.
UploadValidate(u) ==
  /\ proc[u].pc = "queued"
  /\ EventLoopFree(u)
  /\ UploadBegin(u, proc[u])
  /\ UNCHANGED <<hist, nreq>>

\* lines 122-130: process_documents reads the saved file; it raises, returns
\* no chunks, or returns the chunks of the file's present content.
UploadProcess(u) ==
  LET p == Call(proc[u], "process_documents", proc[u].name.stem, "-") IN
  /\ p.pc = "process"
  /\ \/ /\ files[file_path(p.name)] # Absent
        /\ Step(u, [p EXCEPT !.pc = "test",
                             !.chunks = process_documents(
                                          files, file_path(p.name))])
     \/ Finish(u, p, ErrorResponse(UploadExcept(
          HTTPException(ServerError,
                        "Failed to extract content from document"))))
     \/ Finish(u, Raise(p), ErrorResponse(UploadExcept(OtherException)))
  /\ UNCHANGED <<globals, disk, hist, nreq>>

\* line 134: if vector_store is None.
UploadTest(u) ==
  LET p == proc[u] IN
  /\ p.pc = "test"
  /\ Step(u, [p EXCEPT !.first = ~hist.uploadSinceReset,
                       !.installed = hist.installed,
                       !.built = IF BuildsNewIndex(vector_store)
                                   THEN "create" ELSE "extend",
                       !.pc = IF BuildsNewIndex(vector_store)
                                THEN "create" ELSE "add"])
  /\ hist' = [hist EXCEPT !.uploadSinceReset = TRUE]
  /\ UNCHANGED <<globals, disk, nreq>>

\* line 136: vector_store = ingestion.create_vector_store(chunks, NAME);
\* the new index is persisted under NAME and returned.
UploadCreate(u) ==
  LET p == Call(proc[u], "create_vector_store", proc[u].name.stem, "-") IN
  /\ p.pc = "create"
  /\ \/ /\ vector_store' = Some(create_vector_store(p.chunks))
        /\ index' = Some(create_vector_store(p.chunks))
        /\ hist' = [hist EXCEPT !.installed = TRUE]
        /\ Step(u, [p EXCEPT !.pc = "rag"])
     \/ /\ Finish(u, Raise(p), ErrorResponse(UploadExcept(
                                 VectorStoreExcept(OtherException))))
        /\ UNCHANGED <<vector_store, index, hist>>
  /\ UNCHANGED <<rag_system, quiz_generator, files, nreq>>

\* line 139: ingestion.add_documents_to_existing_store(chunks, NAME) adds
\* the chunks to the persisted index.
UploadAdd(u) ==
  LET p == Call(proc[u], "add_documents_to_existing_store",
                proc[u].name.stem, "-") IN
  /\ p.pc = "add"
  /\ \/ /\ index' = Some(add_documents_to_existing_store(index, p.chunks))
        /\ Step(u, [p EXCEPT !.pc = "load"])
     \/ /\ Finish(u, Raise(p), ErrorResponse(UploadExcept(
                                 VectorStoreExcept(OtherException))))
        /\ UNCHANGED index
  /\ UNCHANGED <<globals, files, hist, nreq>>

\* line 140: vector_store = ingestion.load_vector_store(NAME) returns the
\* persisted index; it raises when there is none.
UploadLoad(u) ==
  LET p == Call(proc[u], "load_vector_store", "-", "-") IN
  /\ p.pc = "load"
  /\ \/ /\ index # NoIndex
        /\ vector_store' = Some(load_vector_store(index))
        /\ hist' = [hist EXCEPT !.installed = TRUE]
        /\ Step(u, [p EXCEPT !.pc = "rag"])
     \/ /\ Finish(u, Raise(p), ErrorResponse(UploadExcept(
                                 VectorStoreExcept(OtherException))))
        /\ UNCHANGED <<vector_store, hist>>
  /\ UNCHANGED <<rag_system, quiz_generator, disk, nreq>>

\* line 150: rag_system = RAGSystem(vector_store), reading the global.
UploadRag(u) ==
  LET p == Call(proc[u], "RAGSystem", "-", "-") IN
  /\ p.pc = "rag"
  /\ \/ /\ rag_system' = RAGSystem(vector_store)
        /\ Step(u, [p EXCEPT !.pc = "quiz"])
     \/ /\ Finish(u, Raise(p), ErrorResponse(UploadExcept(OtherException)))
        /\ UNCHANGED rag_system
  /\ UNCHANGED <<vector_store, quiz_generator, disk, hist, nreq>>

\* lines 151-161: quiz_generator = QuizGenerator(vector_store), then the
\* success response.
UploadQuiz(u) ==
  LET p == Call(proc[u], "QuizGenerator", "-", "-") IN
  /\ p.pc = "quiz"
  /\ \/ /\ quiz_generator' = QuizGenerator(vector_store)
        /\ Finish(u, p, OkResponse(<<p.name, Cardinality(p.chunks)>>))
        /\ hist' = [hist EXCEPT !.kept =
                      IF "reset" \in p.raced THEN @ ELSE @ \cup p.chunks]
     \/ /\ Finish(u, Raise(p), ErrorResponse(UploadExcept(OtherException)))
        /\ UNCHANGED <<quiz_generator, hist>>
  /\ UNCHANGED <<vector_store, rag_system, disk, nreq>>

Upload(u) ==
  \/ UploadValidate(u)
  \/ UploadProcess(u)
  \/ UploadTest(u)
  \/ UploadCreate(u)
  \/ UploadAdd(u)
  \/ UploadLoad(u)
  \/ UploadRag(u)
  \/ UploadQuiz(u)

\* ---------------------------------------------------------------- queries
\* The collaborator method each query endpoint calls.
Method(op) ==
  CASE op = "ask" -> "ask_question"
    [] op = "summarize" -> "summarize"
    [] op = "definitions" -> "extract_definitions"
    [] op = "quiz_generate" -> "generate_quiz"
    [] op = "quiz_grade" -> "grade_quiz"

\* The prefix each endpoint puts in the detail of its 500.
FailureDetail(op) ==
  CASE op = "ask" -> "Question answering failed"
    [] op = "summarize" -> "Summarization failed"
    [] op = "definitions" -> "Definition extraction failed"
    [] op = "quiz_generate" -> "Quiz generation failed"
    [] op = "quiz_grade" -> "Quiz grading failed"
    [] op = "documents" -> "Failed to list documents"
    [] op = "reset" -> "Reset failed"

\* The detail generate_quiz reports in its result's "error" key.
QuizErrorDetail == "error reported by generate_quiz"

\* Mutant: the endpoints have no "except Exception" clause.
EndpointExcept_Uncaught(op, e) == e

\* "except Exception as e: raise HTTPException(500, '<prefix>: ...')" of
\* ask, summarize, definitions, quiz/grade, documents and reset.
EndpointExcept(op, e) == HTTPException(ServerError, FailureDetail(op))

\* Mutant: quiz/generate has no "except HTTPException: raise" clause.
GenerateExcept_Wraps(e) ==
  HTTPException(ServerError, "Quiz generation failed")

\* lines 296-300: quiz/generate re-raises an HTTPException as it is.
GenerateExcept(e) ==
  IF e.type = "HTTPException"
    THEN e
    ELSE HTTPException(ServerError, FailureDetail("quiz_generate"))

Except(op, e) ==
  IF op = "quiz_generate" THEN GenerateExcept(e) ELSE EndpointExcept(op, e)

\* Mutant: the endpoints test and use each other's engine.
Engine_Swapped(op) == IF op \in RagOps THEN quiz_generator ELSE rag_system

\* The global an endpoint tests and then uses.
Engine(op) == IF op \in RagOps THEN rag_system ELSE quiz_generator

\* Mutant: the test is inverted.
NoSession_Inverted(engine) == engine # None

\* "if rag_system is None" / "if quiz_generator is None".
NoSession(engine) == engine = None

\* The value a collaborator method returns: the application of the method,
\* on that engine, to the parameters it was called with.
Result(fn, engine, a1, a2) == <<fn, a1, a2, engine>>

\* A result of generate_quiz that carries an "error" key.
ErrorResult == <<"error", QuizErrorDetail>>

\* line 290: "error" in quiz.
HasError(quiz) == quiz[1] = "error"

\* line 291: quiz["error"].
ErrorOf(quiz) == quiz[2]

\* What the collaborator's method can return when it returns.
Results(op, engine, a1, a2) ==
  {Result(Method(op), engine, a1, a2)}
    \cup (IF op = "quiz_generate" THEN {ErrorResult} ELSE {})

\* Mutant: the endpoint returns only part of the result.
Returned_Partial(result) == <<result[1]>>

\* "return result" / "return quiz" / "return results": what the endpoint
\* returns of the collaborator's result.
Returned(result) == result

\* A client sends a request to a plain-def endpoint and a worker thread
\* starts its handler at once: the slot as the handler finds it.
NewRequest(w, op, arg, ans) ==
  [IdleProc EXCEPT !.pc = "start", !.op = op, !.arg = arg, !.ans = ans,
                   !.raced = Running(w),
                   !.before = IF op = "reset"
                                THEN ListDocuments(files) ELSE {}]

\* Mutant: GET / clears vector_store.
Root_Clears(w) ==
  LET p == NewRequest(w, "root", "-", "-") IN
  /\ ArrivesToRead(w)
  /\ Finish(w, p, OkResponse(<<vector_store # None>>))
  /\ vector_store' = None
  /\ UNCHANGED <<rag_system, quiz_generator, disk, hist>>

\* lines 66-83: GET /.
Root(w) ==
  LET p == NewRequest(w, "root", "-", "-") IN
  /\ ArrivesToRead(w)
  /\ Finish(w, p, OkResponse(<<vector_store # None>>))
  /\ UNCHANGED <<globals, disk, hist>>

\* lines 183-187, 213-217, 245-249, 275-279, 318-322: the null check, the
\* handler's first statement.
QueryCheck(w, op, arg, ans) ==
  LET p == NewRequest(w, op, arg, ans) IN
  /\ ArrivesToRead(w)
  /\ IF NoSession(Engine(op))
       THEN Finish(w, p, ErrorResponse(
                           HTTPException(BadRequest, NoDocumentsDetail)))
       ELSE Step(w, [p EXCEPT !.pc = "call", !.seen = Engine(op)])
  /\ UNCHANGED <<globals, disk, hist>>

\* lines 189-196, 219-230, 251-258, 281-300, 324-331: the call on the
\* global, read again, inside the try.
QueryCall(w) ==
  LET p == proc[w]
      engine == Engine(p.op)
      q == Call(p, Method(p.op), p.arg, p.ans)
  IN
  /\ p.pc = "call"
  /\ IF engine = None
       THEN \* None has no such method: AttributeError inside the try
            Finish(w, p, ErrorResponse(Except(p.op, OtherException)))
       ELSE \/ \E r \in Results(p.op, engine, p.arg, p.ans) :
                 IF p.op = "quiz_generate" /\ HasError(r)
                   THEN Finish(w, [q EXCEPT !.result = r],
                               ErrorResponse(Except(p.op,
                                 HTTPException(ServerError, ErrorOf(r)))))
                   ELSE Finish(w, [q EXCEPT !.result = r],
                               OkResponse(Returned(r)))
            \/ Finish(w, Raise(q), ErrorResponse(Except(p.op, OtherException)))
  /\ UNCHANGED <<globals, disk, hist, nreq>>

\* lines 343-350: GET /documents.
Documents(w) ==
  LET p == NewRequest(w, "documents", "-", "-") IN
  /\ ArrivesToRead(w)
  /\ \/ Finish(w, p, OkResponse(<<ListDocuments(files),
                                  Cardinality(ListDocuments(files))>>))
     \/ Finish(w, Raise(p), ErrorResponse(Except("documents", OtherException)))
  /\ UNCHANGED <<globals, disk, hist>>

\* ------------------------------------------------------------------ reset
\* Mutant: the loop removes nothing.
ClearUploads_Nothing(dir) == dir

\* lines 362-366: the upload directory once every file is removed.
ClearUploads(dir) == [f \in Filenames |-> Absent]

\* lines 362-366: the handler's first statements remove every file of the
\* upload directory; listdir or a remove can raise, after some of the files
\* are gone.
ResetFiles(w) ==
  LET p == NewRequest(w, "reset", "-", "-") IN
  /\ Arrives(w)
  /\ hist' = [hist EXCEPT !.kept = {}]
  /\ \/ /\ files' = ClearUploads(files)
        /\ Step(w, [p EXCEPT !.pc = "rm_index"])
     \/ \E gone \in SUBSET ListDocuments(files) :
          /\ gone # ListDocuments(files) \/ gone = {}
          /\ files' = [f \in Filenames |->
                         IF f \in gone THEN Absent ELSE files[f]]
          /\ Finish(w, Raise(p), ErrorResponse(Except("reset", OtherException)))
  /\ UNCHANGED <<globals, index>>

\* lines 368-371: remove the persisted index directory; rmtree can raise.
ResetIndex(w) ==
  LET p == proc[w] IN
  /\ p.pc = "rm_index"
  /\ hist' = [hist EXCEPT !.kept = {}]
  /\ \/ /\ index' = NoIndex
        /\ Step(w, [p EXCEPT !.pc = "null_vs"])
     \/ /\ index # NoIndex
        /\ Finish(w, Raise(p), ErrorResponse(Except("reset", OtherException)))
        /\ UNCHANGED index
  /\ UNCHANGED <<globals, files, nreq>>

\* line 374: vector_store = None.
ResetVectorStore(w) ==
  LET p == proc[w] IN
  /\ p.pc = "null_vs"
  /\ vector_store' = None
  /\ hist' = [hist EXCEPT !.kept = {}, !.installed = FALSE]
  /\ Step(w, [p EXCEPT !.pc = "null_rag"])
  /\ UNCHANGED <<rag_system, quiz_generator, disk, nreq>>

\* Mutant: the reset leaves rag_system as it is.
ResetRag_Keeps(w) ==
  LET p == proc[w] IN
  /\ p.pc = "null_rag"
  /\ hist' = [hist EXCEPT !.kept = {}]
  /\ Step(w, [p EXCEPT !.pc = "null_quiz"])
  /\ UNCHANGED <<globals, disk, nreq>>

\* line 375: rag_system = None.
ResetRag(w) ==
  LET p == proc[w] IN
  /\ p.pc = "null_rag"
  /\ rag_system' = None
  /\ hist' = [hist EXCEPT !.kept = {}]
  /\ Step(w, [p EXCEPT !.pc = "null_quiz"])
  /\ UNCHANGED <<vector_store, quiz_generator, disk, nreq>>

\* lines 376-381: quiz_generator = None, then the success response.
ResetQuiz(w) ==
  LET p == proc[w] IN
  /\ p.pc = "null_quiz"
  /\ quiz_generator' = None
  /\ hist' = [hist EXCEPT !.kept = {}, !.uploadSinceReset = FALSE,
                          !.afterReset =
                            IF "upload" \in p.raced \/ Uploads # {}
                              THEN "raced" ELSE "clean"]
  /\ Finish(w, p, OkResponse(<<"System reset successfully">>))
  /\ UNCHANGED <<vector_store, rag_system, disk, nreq>>

Reset(w) ==
  \/ ResetFiles(w)
  \/ ResetIndex(w)
  \/ ResetVectorStore(w)
  \/ ResetRag(w)
  \/ ResetQuiz(w)

\* ------------------------------------------------------------------- Next
Next ==
  \/ \E u \in Slots, r \in UploadRequests : UploadArrive(u, r[1], r[2])
  \/ \E u \in Slots, r \in UploadRequests : UploadStart(u, r[1], r[2])
  \/ \E u \in Slots : Upload(u)
  \/ \E w \in Slots : Root(w)
  \/ \E w \in Slots, op \in QueryOps \ {"quiz_grade"} :
       QueryCheck(w, op, "t1", "-")
  \/ \E w \in Slots, g \in GradeRequests :
       QueryCheck(w, "quiz_grade", g[1], g[2])
  \/ \E w \in Slots : QueryCall(w)
  \/ \E w \in Slots : Documents(w)
  \/ \E w \in Slots : Reset(w)
  \/ Respond

Spec == Init /\ [][Next]_vars


\* ================================================================ claims
\* out holds a request only in the state its handler's last step produces,
\* so a predicate on out and the shared state speaks of the state a request
\* leaves behind.

UploadProcs == {proc[u] : u \in Uploads} \cup {out.p}

\* C1: while no /upload request has been started, /ask, /summarize,
\* /definitions and /quiz/generate answer 400 "No documents uploaded yet"
\* and call no collaborator (no such handler gets past its null check).
C1_QueryBeforeUpload ==
  ~hist.uploadStarted =>
    /\ \A w \in Workers :
         proc[w].op \notin {"ask", "summarize", "definitions",
                            "quiz_generate"}
    /\ out.p.op \in {"ask", "summarize", "definitions", "quiz_generate"}
         => /\ out.resp.status = 400
            /\ out.resp.detail = NoDocumentsDetail
            /\ out.p.calls = {}

C1_Witness ==
  /\ ~hist.uploadStarted
  /\ out.p.op = "quiz_generate"
  /\ out.resp.status = 400

\* C2: an /upload whose lower-cased suffix is neither .pdf nor .txt ends, at
\* the handler's first step, with a 400, having called no collaborator and
\* leaving the upload directory, the index and the three globals as they
\* were; and no upload handler with such a name gets any further.
C2_BadExtensionRejected ==
  /\ \A u \in Uploads :
       Mid(u) => Lower(proc[u].name.suffix) \in {".pdf", ".txt"}
  /\ ( /\ out.p.op = "upload"
       /\ Lower(out.p.name.suffix) \notin {".pdf", ".txt"} )
     => /\ out.resp.status = 400
        /\ out.p.pc = "queued"
        /\ out.p.calls = {}
        /\ out.pre = shared
        /\ files = out.pre[4]
        /\ vector_store = out.pre[1]
        /\ rag_system = out.pre[2]
        /\ quiz_generator = out.pre[3]

C2_Witness ==
  /\ out.p.op = "upload"
  /\ out.p.name.suffix = ".exe"
  /\ out.resp.status = 400
  /\ vector_store # None

\* C3: when an /upload returns the success response and no /reset ran
\* during it, vector_store, rag_system and quiz_generator are non-null and
\* GET /documents lists the uploaded filename.
C3_SuccessfulUploadInstalls ==
  ( /\ out.p.op = "upload"
    /\ out.resp.status = 200
    /\ "reset" \notin out.p.raced )
  => /\ vector_store # None
     /\ rag_system # None
     /\ quiz_generator # None
     /\ out.p.name \in ListDocuments(files)

C3_Witness ==
  /\ out.p.op = "upload"
  /\ out.resp.status = 200
  /\ "reset" \notin out.p.raced
  /\ out.p.name.suffix = ".PDF"

C5_OneTriple ==
  (\A s \in Slots : ~Mid(s)) =>
    \/ vector_store = None /\ rag_system = None /\ quiz_generator = None
    \/ /\ vector_store # None
       /\ rag_system = Some(vector_store)
       /\ quiz_generator = Some(vector_store)

\* C6: a request during which a collaborator or filesystem call raised ends
\* with an HTTP 500 carrying a detail string, and no request ends with an
\* exception that escaped its handler.
C6_ExceptionsBecome500 ==
  /\ ~out.resp.unhandled
  /\ out.p.raised =>
       /\ out.resp.status = 500
       /\ out.resp.detail # ""

C6_Witness ==
  /\ out.p.raised
  /\ out.p.op = "upload"
  /\ out.p.pc = "rag"
  /\ out.resp.status = 500

\* C7: re-uploading a name that is already in the upload directory (valid
\* extension, no collaborator failing, no /reset running meanwhile) returns
\* success, and GET /documents lists the same names as before, the name
\* now holding the new content.
C7_ReuploadOverwrites ==
  ( /\ out.p.op = "upload"
    /\ out.p.name \in out.p.before
    /\ ~out.p.raised
    /\ out.p.chunks # {}
    /\ "reset" \notin out.p.raced )
  => /\ out.resp.status = 200
     /\ ListDocuments(files) = out.p.before
     /\ Cardinality(ListDocuments(files)) = Cardinality(out.p.before)
     /\ files[out.p.name] = out.p.content

C7_Witness ==
  /\ out.p.op = "upload"
  /\ out.p.name \in out.p.before
  /\ out.resp.status = 200
  /\ "reset" \notin out.p.raced
  /\ out.p.content = "v2"
  /\ vector_store # None
  /\ <<out.p.name, "v1">> \in vector_store[1]

C9_Original ==
  out.p.op = "quiz_grade" =>
    /\ out.p.calls = {<<"grade_quiz", out.p.arg, out.p.ans>>}
    /\ out.resp.status = 200
    /\ out.resp.body =
         <<"grade_quiz", out.p.arg, out.p.ans, out.resp.body[4]>>

\* C9 amended: /quiz/grade answers 400 "No documents uploaded yet", without
\* calling grade_quiz, when quiz_generator is null; otherwise it calls
\* grade_quiz with the request's questions and user_answers and nothing
\* else, and returns that result unchanged, or answers 500 "Quiz grading
\* failed" when the call raises or the engine has been nulled meanwhile.
C9_GradeDelegates ==
  out.p.op = "quiz_grade" =>
    \/ /\ out.resp.status = 400
       /\ out.resp.detail = NoDocumentsDetail
       /\ out.p.calls = {}
       /\ quiz_generator = None
    \/ /\ out.resp.status = 200
       /\ out.p.calls = {<<"grade_quiz", out.p.arg, out.p.ans>>}
       /\ Len(out.resp.body) = 4
       /\ out.resp.body =
            <<"grade_quiz", out.p.arg, out.p.ans, out.resp.body[4]>>
       /\ out.resp.body[4] # None
    \/ /\ out.resp.status = 500
       /\ out.resp.detail = "Quiz grading failed"
       /\ \/ out.p.raised /\
             out.p.calls = {<<"grade_quiz", out.p.arg, out.p.ans>>}
          \/ ~out.p.raised /\ out.p.calls = {} /\ quiz_generator = None

C9_Witness ==
  /\ out.p.op = "quiz_grade"
  /\ out.resp.status = 200
  /\ out.p.arg = "q2"

\* C10 as stated: two /upload requests in flight at the same time can
\* interleave their handler steps; that is, while one upload's handler is
\* part-way through, the other upload's handler can take a step.
C10_Original ==
  \A u \in Uploads, v \in Uploads :
    (u # v /\ Mid(u) /\ proc[v].pc = "queued") => ENABLED UploadValidate(v)

\* C10 amended: two /upload requests in flight at the same time never
\* interleave their handler steps: at most one upload handler is part-way
\* through at any time, and the other waits for it to end.
C10_UploadsSerialized ==
  /\ Cardinality({u \in Uploads : Mid(u)}) <= 1
  /\ \A u \in Uploads, v \in Uploads :
       (u # v /\ Mid(u) /\ proc[v].pc # "idle") =>
         /\ proc[v].pc = "queued"
         /\ proc[v].calls = {}
         /\ ~ENABLED Upload(v)

C10_Witness ==
  \E u \in Uploads, v \in Uploads :
    /\ u # v
    /\ proc[u].pc = "rag"
    /\ proc[v].pc = "queued"
    /\ file_extension(proc[v].name) \in SupportedExtensions

\* C11: a query whose handler overlapped a /reset (and no /upload) ends in
\* one of three ways and never in an unhandled exception: the 400 "No
\* documents uploaded yet" with no collaborator called, a 200 carrying the
\* result computed by the engine its null check read, or a 500; and when the
\* reset has nulled the global between the check and the call, it is a 500
\* with no collaborator called.
C11_QueryRacingReset ==
  (out.p.op \in QueryOps /\ out.p.raced = {"reset"}) =>
    /\ ~out.resp.unhandled
    /\ \/ /\ out.resp.status = 400
          /\ out.resp.detail = NoDocumentsDetail
          /\ out.p.pc = "start"
          /\ out.p.calls = {}
       \/ /\ out.resp.status = 200
          /\ out.p.seen # None
          /\ out.resp.body = Result(Method(out.p.op), out.p.seen,
                                    out.p.arg, out.p.ans)
       \/ /\ out.resp.status = 500
          /\ out.p.pc = "call"
    /\ ( /\ out.p.pc = "call"
         /\ out.pre[IF out.p.op \in RagOps THEN 2 ELSE 3] = None )
       => /\ out.resp.status = 500
          /\ out.p.calls = {}

C11_Witness ==
  /\ out.p.op = "ask"
  /\ out.p.raced = {"reset"}
  /\ out.p.seen # None
  /\ out.pre[2] = None
  /\ out.resp.status = 500

\* C12: while the first upload of a session (the three globals were null
\* when it started, and no /reset ran during it) is between the assignment of rag_system and the
\* assignment of quiz_generator, the session is partly installed: GET /
\* reports documents_loaded true, /ask, /summarize and /definitions pass
\* their null check and are served by the new engine, and /quiz/generate
\* and /quiz/grade are never served: a quiz request sent in that window
\* answers 400 "No documents uploaded yet".
C12_PartlyInstalled ==
  \A u \in Uploads :
    ( /\ proc[u].pc = "quiz"
      /\ proc[u].seen = <<None, None, None>>
      /\ proc[u].raced = {} )
    => /\ proc[u].built = "create"
       /\ vector_store # None
       /\ ~NoSession(Engine("ask"))
       /\ NoSession(Engine("quiz_generate"))
       /\ NoSession(Engine("quiz_grade"))
       /\ out.p.op = "root" => out.resp.body = <<TRUE>>
       /\ out.p.op \in RagOps =>
            /\ out.resp.status # 400
            /\ out.resp.status = 200 => out.resp.body[4] = rag_system
       /\ out.p.op \in QuizOps =>
            /\ out.resp.status # 200
            /\ out.p.pc = "start" =>
                 /\ out.resp.status = 400
                 /\ out.resp.detail = NoDocumentsDetail

C12_Witness ==
  \E u \in Uploads :
    /\ proc[u].pc = "quiz"
    /\ proc[u].seen = <<None, None, None>>
    /\ proc[u].raced = {}
    /\ quiz_generator = None
    /\ out.p.op = "ask"
    /\ out.p.seen = rag_system
    /\ out.resp.status = 200
    /\ out.resp.body[4] = RAGSystem(vector_store)

\* C13: when generate_quiz returns a result with an "error" key,
\* /quiz/generate answers 500 with exactly that error value as its detail
\* (not the "Quiz generation failed" detail of the catch-all clause) and
\* returns no quiz; when the result has no "error" key, the response is 200
\* and carries the result unchanged.
C13_QuizErrorDetail ==
  (out.p.op = "quiz_generate" /\ out.p.result # <<>>) =>
    IF HasError(out.p.result)
      THEN /\ out.resp.status = 500
           /\ ~out.resp.unhandled
           /\ out.resp.detail = ErrorOf(out.p.result)
           /\ out.resp.detail # FailureDetail("quiz_generate")
           /\ out.resp.body = <<>>
      ELSE /\ out.resp.status = 200
           /\ out.resp.body = out.p.result

C13_Witness ==
  /\ out.p.op = "quiz_generate"
  /\ out.p.result = ErrorResult
  /\ out.resp.status = 500
  /\ out.resp.detail = QuizErrorDetail

\* C14: an /upload that ends in an error response, with no /reset running
\* during it, leaves vector_store, rag_system and quiz_generator as they
\* were when its handler started.
C14_FailedUploadKeepsGlobals ==
  (out.p.op = "upload" /\ out.resp.status # 200 /\ out.p.raced = {})
    => globals = out.p.seen

\* C15: whenever no request is in progress, every filename GET /documents
\* lists belongs to an upload that returned success since the last reset,
\* its chunks being in the index.
C15_ListedWereUploaded ==
  (\A s \in Slots : proc[s].pc = "idle") =>
    \A f \in ListDocuments(files) :
      /\ \E c \in hist.kept : c[1] = f
      /\ vector_store # None
      /\ \E c \in vector_store[1] : c[1] = f

\* C16 as stated: once a /reset has returned success, and as long as no
\* /upload request is sent after that return, the three globals stay null
\* and the upload directory stays empty, also when an /upload that started
\* before the reset is still running.
C16_Original ==
  hist.afterReset # "no" =>
    /\ globals = <<None, None, None>>
    /\ ListDocuments(files) = {}

\* C16 amended: once a /reset has returned success, with no /upload handler
\* having run during it and none in flight at its return, and as long as no
\* /upload request is sent after that return, the three globals stay null
\* and the upload directory stays empty.
C16_StaysClearedAfterReset ==
  hist.afterReset = "clean" =>
    /\ globals = <<None, None, None>>
    /\ ListDocuments(files) = {}
    /\ Uploads = {}

C16_Witness ==
  /\ hist.afterReset = "clean"
  /\ hist.uploadStarted
  /\ out.p.op = "ask"
  /\ out.resp.status = 400

\* The endpoints C17 is about.
ReadOps == QueryOps \cup {"root", "documents"}

\* A step of a read endpoint's handler: its last step, or a null check that
\* lets the handler go on to its call.
ReadStep ==
  \/ out'.p.op \in ReadOps
  \/ \E w \in Slots : proc[w].pc = "idle" /\ proc'[w].pc = "call"

\* A step of an /upload or /reset handler.
WriterStep ==
  \/ out'.p.op \in {"upload", "reset"}
  \/ \E s \in Slots :
       /\ proc'[s].op \in {"upload", "reset"}
       /\ proc'[s].pc \notin {"idle", "queued"}
       /\ proc'[s].pc # proc[s].pc

\* C17: no step of GET /, GET /documents, /ask, /summarize, /definitions,
\* /quiz/generate or /quiz/grade, whatever its response, changes
\* vector_store, rag_system, quiz_generator or the upload directory; every
\* step that changes one of them is a step of an /upload or /reset handler.
C17_ReadsWriteNothing ==
  [][ /\ ReadStep => UNCHANGED <<globals, files>>
      /\ <<globals, files>>' # <<globals, files>> => WriterStep ]_vars

C17_Witness ==
  /\ out.p.op \in ReadOps
  /\ out.p.raised
  /\ out.resp.status = 500
  /\ vector_store # None
  /\ ListDocuments(files) # {}
  /\ out.pre = shared

====
